---- MODULE Spec2Model ----
(***************************************************************************)
(* EasyMaaS: the service registry, the dispatch wrapper, the recursive key *)
(* resolver, the parameter mapper and the two response composers of        *)
(* src/easymaas/core/decorators.py with the envelope templates of          *)
(* src/easymaas/config/templates.py.                                       *)
(*                                                                         *)
(* JSON-like values are tagged records:                                    *)
(*   [t |-> "none"]                      None                              *)
(*   [t |-> "bool", b |-> BOOLEAN]       True / False                      *)
(*   [t |-> "int",  n |-> Int]           a number                          *)
(*   [t |-> "str",  s |-> Seq(STRING)]   text, as a sequence of pieces:    *)
(*                                       " " is whitespace, any other      *)
(*                                       piece is a run of non-whitespace  *)
(*   [t |-> "list", elems |-> Seq(value)]                                  *)
(*   [t |-> "dict", items |-> Seq([k, v])]  insertion-ordered, keys unique *)
(***************************************************************************)
EXTENDS Integers, Sequences, FiniteSets, TLC

VARIABLES
    services,     \* ServiceRegistry._services: model name -> handler closure
    configs,      \* ServiceRegistry._service_configs: model name -> flags
    lastReg,      \* history: model name -> arguments of the latest register call
    regs,         \* history: number of register calls made so far
    threads,      \* register calls running concurrently: thread -> position, arguments
    call,         \* the dispatch (wrapper invocation) last made, with its outcome
    gen,          \* the stream_generator of the last streaming response
    frames,       \* frames the stream_generator has handed to its consumer
    input,        \* the arguments drawn for the resolver or the composer
    output        \* what the resolver or the composer returned for them

vars == <<services, configs, lastReg, regs, threads, call, gen, frames, input, output>>

-----------------------------------------------------------------------------
(* JSON values *)

JNone == [t |-> "none"]
JBool(b) == [t |-> "bool", b |-> b]
JInt(n) == [t |-> "int", n |-> n]
JStr(s) == [t |-> "str", s |-> s]
JList(elems) == [t |-> "list", elems |-> elems]
JDict(items) == [t |-> "dict", items |-> items]
KV(k, v) == [k |-> k, v |-> v]

IsNone(x) == x.t = "none"
IsStr(x) == x.t = "str"
IsList(x) == x.t = "list"
IsDict(x) == x.t = "dict"

\* One piece of text with no whitespace in it.
Word(w) == JStr(<<w>>)

\* Python truthiness of a JSON value (the `if stream and ...` tests).
Truthy(x) ==
    CASE x.t = "none" -> FALSE
      [] x.t = "bool" -> x.b
      [] x.t = "int" -> x.n # 0
      [] x.t = "str" -> Len(x.s) > 0
      [] x.t = "list" -> Len(x.elems) > 0
      [] x.t = "dict" -> Len(x.items) > 0

\* key in d
HasKey(d, key) == \E i \in 1..Len(d.items) : d.items[i].k = key

KeyIndex(d, key) == CHOOSE i \in 1..Len(d.items) : d.items[i].k = key

\* d[key]
DictGet(d, key) == d.items[KeyIndex(d, key)].v

\* d.get(key, default)
DictGetOr(d, key, default) == IF HasKey(d, key) THEN DictGet(d, key) ELSE default

\* d[key] = value: an existing key keeps its place, a new key goes last.
DictSet(d, key, value) ==
    IF HasKey(d, key)
    THEN JDict([d.items EXCEPT ![KeyIndex(d, key)].v = value])
    ELSE JDict(Append(d.items, KV(key, value)))

\* list(d.keys())
DictKeys(d) == [i \in 1..Len(d.items) |-> d.items[i].k]

\* len(text.split()): the number of maximal runs of non-whitespace pieces.
SplitCount(s) ==
    Cardinality({i \in 1..Len(s) : s[i] # " " /\ (i = 1 \/ s[i - 1] = " ")})

\* repr of a list element, then ", " between elements.
RECURSIVE ReprElems(_, _)
ReprElems(elems, i) ==
    IF i > Len(elems) THEN <<>>
    ELSE LET x == elems[i]
             r == CASE x.t = "int" -> ToString(x.n)
                    [] x.t = "bool" -> IF x.b THEN "True" ELSE "False"
                    [] x.t = "none" -> "None"
                    [] OTHER -> "..."
         IN IF i = Len(elems) THEN <<r>> ELSE <<r, ",", " ">> \o ReprElems(elems, i + 1)

\* str(x) of a value that is neither None, text nor an object.
StrOf(x) ==
    CASE x.t = "int" -> <<ToString(x.n)>>
      [] x.t = "bool" -> IF x.b THEN <<"True">> ELSE <<"False">>
      [] x.t = "str" -> x.s
      [] x.t = "list" -> <<"[">> \o ReprElems(x.elems, 1) \o <<"]">>
      [] x.t = "gen" -> <<"<generator", " ", "object", " ", "at", " ", "0x0>">>
      [] x.t = "asyncgen" -> <<"<async_generator", " ", "object", " ", "at", " ", "0x0>">>
      [] OTHER -> <<"?">>

-----------------------------------------------------------------------------
(* Recursive key resolver *)

NotFound == [found |-> FALSE, result |-> JNone]

RECURSIVE find_key_in_json(_, _)
RECURSIVE FindInValues(_, _, _)

\* for key, value in json_obj.items(): the first value in which the key is found
FindInValues(items, target_key, i) ==
    IF i > Len(items) THEN NotFound
    ELSE LET r == find_key_in_json(items[i].v, target_key)
         IN IF r.found THEN r ELSE FindInValues(items, target_key, i + 1)

\* A faulty find: the values are searched before the direct key is tried.
find_nested_first(json_obj, target_key) ==
    IF IsDict(json_obj)
    THEN LET r == FindInValues(json_obj.items, target_key, 1)
         IN IF r.found THEN r
            ELSE IF HasKey(json_obj, target_key)
            THEN [found |-> TRUE, result |-> DictGet(json_obj, target_key)]
            ELSE NotFound
    ELSE IF IsList(json_obj) /\ Len(json_obj.elems) > 0
    THEN LET last_item == json_obj.elems[Len(json_obj.elems)]
         IN IF IsDict(last_item)
            THEN find_key_in_json(last_item, target_key)
            ELSE NotFound
    ELSE NotFound

\* A faulty find: a list is searched through its first element.
find_first_item(json_obj, target_key) ==
    IF IsDict(json_obj)
    THEN IF HasKey(json_obj, target_key)
         THEN [found |-> TRUE, result |-> DictGet(json_obj, target_key)]
         ELSE FindInValues(json_obj.items, target_key, 1)
    ELSE IF IsList(json_obj) /\ Len(json_obj.elems) > 0
    THEN LET first_item == json_obj.elems[1]
         IN IF IsDict(first_item)
            THEN find_key_in_json(first_item, target_key)
            ELSE NotFound
    ELSE NotFound

find_key_in_json(json_obj, target_key) ==
    IF IsDict(json_obj)
    THEN IF HasKey(json_obj, target_key)
         THEN [found |-> TRUE, result |-> DictGet(json_obj, target_key)]
         ELSE FindInValues(json_obj.items, target_key, 1)
    ELSE IF IsList(json_obj) /\ Len(json_obj.elems) > 0
    THEN LET last_item == json_obj.elems[Len(json_obj.elems)]
         IN IF IsDict(last_item)
            THEN find_key_in_json(last_item, target_key)
            ELSE NotFound
    ELSE NotFound

RECURSIVE update_json_with_key(_, _, _)
RECURSIVE UpdateInValues(_, _, _, _)

\* for key, value in json_obj.items(): the first dict value, or dict last element
\* of a list value, in which the key is updated. The in-place mutation is the
\* structure returned in .obj.
UpdateInValues(json_obj, target_key, new_value, i) ==
    IF i > Len(json_obj.items) THEN [ok |-> FALSE, obj |-> json_obj]
    ELSE LET value == json_obj.items[i].v
             skip == UpdateInValues(json_obj, target_key, new_value, i + 1)
         IN IF IsDict(value)
            THEN LET r == update_json_with_key(value, target_key, new_value)
                 IN IF r.ok
                    THEN [ok |-> TRUE,
                          obj |-> JDict([json_obj.items EXCEPT ![i].v = r.obj])]
                    ELSE skip
            ELSE IF IsList(value) /\ Len(value.elems) > 0
            THEN LET n == Len(value.elems)
                     last_item == value.elems[n]
                 IN IF IsDict(last_item)
                    THEN LET r == update_json_with_key(last_item, target_key, new_value)
                         IN IF r.ok
                            THEN [ok |-> TRUE,
                                  obj |-> JDict([json_obj.items EXCEPT ![i].v =
                                             JList([value.elems EXCEPT ![n] = r.obj])])]
                            ELSE skip
                    ELSE skip
            ELSE skip

\* A faulty update: the values are updated before the direct key is tried.
update_nested_first(json_obj, target_key, new_value) ==
    LET r == UpdateInValues(json_obj, target_key, new_value, 1)
    IN IF r.ok THEN r
       ELSE IF HasKey(json_obj, target_key)
       THEN [ok |-> TRUE, obj |-> DictSet(json_obj, target_key, new_value)]
       ELSE r

update_json_with_key(json_obj, target_key, new_value) ==
    IF HasKey(json_obj, target_key)
    THEN [ok |-> TRUE, obj |-> DictSet(json_obj, target_key, new_value)]
    ELSE UpdateInValues(json_obj, target_key, new_value, 1)


\* sig.parameters of the function, in declaration order; params maps each to a
\* value, unmapped lists the names set to None (the warning's content).
RECURSIVE MapParams(_, _, _)
MapParams(names, request_data, i) ==
    IF i > Len(names) THEN [params |-> <<>>, unmapped |-> <<>>]
    ELSE LET param_name == names[i]
             f == find_key_in_json(request_data, param_name)
             rest == MapParams(names, request_data, i + 1)
         IN IF f.found
            THEN [params |-> <<KV(param_name, f.result)>> \o rest.params,
                  unmapped |-> rest.unmapped]
            ELSE [params |-> <<KV(param_name, JNone)>> \o rest.params,
                  unmapped |-> <<param_name>> \o rest.unmapped]

\* A faulty mapper: a name the request does not resolve gets no binding.
map_hits_only(func, request_data) ==
    LET r == MapParams(func.params, request_data, 1)
        missed == {r.unmapped[i] : i \in 1..Len(r.unmapped)}
    IN [params |-> SelectSeq(r.params, LAMBDA kv : kv.k \notin missed),
        unmapped |-> r.unmapped]

map_request_to_params(func, request_data) == MapParams(func.params, request_data, 1)

-----------------------------------------------------------------------------
(* Envelope templates. uuid is the value uuid.uuid4() returns to the call and  *)
(* now the value time.time() returns: both come from the environment.         *)

\* Values of int(time.time()).
Times == {1700000000}

\* request_data.get("model", "EasyMaaS")
DefaultModel == Word("EasyMaaS")

\* The n-th value uuid.uuid4() returns: each differs from the others.
Uuid(n) == JStr(<<"uuid-", ToString(n)>>)

\* The values of `count` successive uuid.uuid4() calls, `made` having been made.
FreshUuids(made, count) == [i \in 1..count |-> Uuid(made + i)]

get_default_response(model_name, uuid, now) ==
    JDict(<<
        KV("id", uuid),
        KV("object", Word("chat.completion")),
        KV("created", JInt(now)),
        KV("model", model_name),
        KV("choices", JList(<<
            JDict(<<
                KV("index", JInt(0)),
                KV("message", JDict(<<
                    KV("role", Word("assistant")),
                    KV("content", JStr(<<"Hello", " ", "from", " ", "EasyMaaS">>))>>)),
                KV("finish_reason", Word("stop"))>>)>>)),
        KV("usage", JDict(<<
            KV("prompt_tokens", JInt(0)),
            KV("completion_tokens", JInt(0)),
            KV("total_tokens", JInt(0))>>))>>)

get_stream_response(model_name, uuid, now) ==
    JDict(<<
        KV("id", uuid),
        KV("object", Word("chat.completion.chunk")),
        KV("created", JInt(now)),
        KV("model", model_name),
        KV("choices", JList(<<
            JDict(<<
                KV("index", JInt(0)),
                KV("delta", JDict(<<
                    KV("role", Word("assistant")),
                    KV("content", JStr(<<>>))>>)),
                KV("finish_reason", JNone)>>)>>))>>)

\* response["choices"][0][slot]["content"] = content  (slot: message or delta)
SetContent(response, slot, content) ==
    LET choices == DictGet(response, "choices")
        choice == choices.elems[1]
        filled == DictSet(choice, slot, DictSet(DictGet(choice, slot), "content", content))
    IN DictSet(response, "choices", JList([choices.elems EXCEPT ![1] = filled]))

\* response["choices"][0]["finish_reason"] = reason
SetFinishReason(response, reason) ==
    LET choices == DictGet(response, "choices")
    IN DictSet(response, "choices",
               JList([choices.elems EXCEPT ![1] = DictSet(@, "finish_reason", reason)]))

\* response["usage"][field] = n
SetUsage(response, field, n) ==
    DictSet(response, "usage", DictSet(DictGet(response, "usage"), field, JInt(n)))

Usage(response, field) == DictGet(DictGet(response, "usage"), field).n

-----------------------------------------------------------------------------
(* Response composer *)

\* for key, value in result.items(): _update_json_with_key(response, key, value),
\* an unmatched key being warned about and dropped
RECURSIVE MergeItems(_, _, _)
MergeItems(response, items, i) ==
    IF i > Len(items) THEN response
    ELSE MergeItems(update_json_with_key(response, items[i].k, items[i].v).obj,
                    items, i + 1)

\* sum(len(msg.get("content", "").split()) for msg in messages
\*     if isinstance(msg, dict)); raised when a content is not text
RECURSIVE SumTokens(_, _)
SumTokens(msgs, i) ==
    IF i > Len(msgs) THEN [raised |-> FALSE, n |-> 0]
    ELSE LET rest == SumTokens(msgs, i + 1)
             msg == msgs[i]
         IN IF ~IsDict(msg) THEN rest
            ELSE LET content == DictGetOr(msg, "content", JStr(<<>>))
                 IN IF ~IsStr(content) \/ rest.raised
                    THEN [raised |-> TRUE, n |-> 0]
                    ELSE [raised |-> FALSE, n |-> SplitCount(content.s) + rest.n]

\* messages = request_data.get("messages", []) and the sum over it. Iterating
\* text or an object yields text only, which is skipped; iterating None, a
\* boolean or a number raises.
PromptTokens(request_data) ==
    LET messages == DictGetOr(request_data, "messages", JList(<<>>))
    IN IF IsList(messages) THEN SumTokens(messages.elems, 1)
       ELSE IF IsStr(messages) \/ IsDict(messages) THEN [raised |-> FALSE, n |-> 0]
       ELSE [raised |-> TRUE, n |-> 0]

\* The text branch of _create_response.
ComposeText(response, text) ==
    LET filled == SetContent(response, "message", JStr(text))
        counted == SetUsage(filled, "completion_tokens", SplitCount(text))
    IN SetUsage(counted, "total_tokens",
                Usage(counted, "prompt_tokens") + Usage(counted, "completion_tokens"))

\* _create_response(func, request_data, result, model_name). uuids are the
\* values uuid.uuid4() returns to the calls made, in order. A value that is
\* neither None, text, a list nor an object is stringified and composed by a
\* second call, on a template of its own.
RECURSIVE create_response(_, _, _, _, _)
create_response(request_data, result, model_name, uuids, now) ==
    LET prompt == PromptTokens(request_data)
        response == SetUsage(get_default_response(model_name, uuids[1], now),
                             "prompt_tokens", prompt.n)
    IN IF prompt.raised THEN [raised |-> TRUE]
       ELSE CASE IsNone(result) -> [raised |-> FALSE, response |-> response]
              [] IsStr(result) ->
                    [raised |-> FALSE, response |-> ComposeText(response, result.s)]
              [] IsList(result) -> [raised |-> FALSE, response |-> response]
              [] IsDict(result) ->
                    [raised |-> FALSE, response |-> MergeItems(response, result.items, 1)]
              [] OTHER ->
                    create_response(request_data, JStr(StrOf(result)), model_name,
                                    Tail(uuids), now)

-----------------------------------------------------------------------------
(* Streaming composer *)

\* _process_stream_chunk(chunk, response_id, model_name); uuid is the value the
\* template's own uuid.uuid4() call returns.
process_stream_chunk(chunk, response_id, model_name, uuid, now) ==
    LET response == DictSet(get_stream_response(model_name, uuid, now), "id", response_id)
    IN CASE IsNone(chunk) -> response
         [] IsStr(chunk) -> SetContent(response, "delta", chunk)
         [] IsDict(chunk) -> MergeItems(response, chunk.items, 1)
         [] OTHER -> SetContent(response, "delta", JStr(StrOf(chunk)))

\* The except branch of stream_generator: the terminal frame for error text e.
error_chunk(e, response_id, model_name, uuid, now) ==
    LET chunk == DictSet(get_stream_response(model_name, uuid, now), "id", response_id)
    IN SetFinishReason(SetContent(chunk, "delta", JStr(<<"Error:", " ">> \o e)),
                       Word("error"))

\* f"data: {json.dumps(chunk)}\n\n"
Frame(chunk) == [data |-> chunk]

IsGenerator(result) == result.t \in {"gen", "asyncgen"}

\* _create_stream_response(func, request_data, result, model_name): mints the
\* shared id and returns the StreamingResponse around a stream_generator that
\* has not run yet. pulled counts the chunks requested from the source, minted
\* the uuid.uuid4() calls made.
create_stream_response(result, model_name, now) ==
    [t |-> "StreamingResponse", state |-> "created", response_id |-> Uuid(1),
     model_name |-> model_name, result |-> result, pulled |-> 0, minted |-> 1,
     now |-> now]

-----------------------------------------------------------------------------
(* Service registry *)

Flags(map_request, map_response, supports_streaming) ==
    [map_request |-> map_request, map_response |-> map_response,
     supports_streaming |-> supports_streaming]

NoService == [missing |-> TRUE]
NoConfig == [empty |-> TRUE]
EmptyRegistry == [services |-> <<>>, configs |-> <<>>]

\* The wrapper closure register builds: the function and the flags it closes
\* over. reg tells the closures of different register calls apart.
Handler(reg, func, flags) == [reg |-> reg, func |-> func, flags |-> flags]

\* A faulty register: a name already registered keeps its first handler.
register_keeps_first(registry, reg, model_name, func, flags) ==
    [services |-> IF model_name \in DOMAIN registry.services
                  THEN registry.services
                  ELSE (model_name :> Handler(reg, func, flags)) @@ registry.services,
     configs |-> (model_name :> flags) @@ registry.configs]

\* ServiceRegistry.register(model_name, func, map_request, map_response,
\* supports_streaming), the reg-th call made
register(registry, reg, model_name, func, flags) ==
    [services |-> (model_name :> Handler(reg, func, flags)) @@ registry.services,
     configs |-> (model_name :> flags) @@ registry.configs]

get_service(model_name) ==
    IF model_name \in DOMAIN services THEN services[model_name] ELSE NoService

get_service_config(model_name) ==
    IF model_name \in DOMAIN configs THEN configs[model_name] ELSE NoConfig

\* list(cls._services.keys()), as the set of its elements
list_services == DOMAIN services

-----------------------------------------------------------------------------
(* Dispatch wrapper *)

\* A name local to wrapper that no assignment has bound yet.
Unbound == [unbound |-> TRUE]

\* The structured error of the streaming check.
StreamingNotSupported(model_name) ==
    JDict(<<KV("error", JDict(<<
        KV("message", JStr(<<"Model", " ", "'">> \o StrOf(model_name)
                            \o <<"'", " ", "does", " ", "not", " ", "support", " ",
                                 "streaming", " ", "responses">>)),
        KV("type", Word("invalid_request_error")),
        KV("param", Word("stream")),
        KV("code", Word("streaming_not_supported"))>>))>>)

\* stream = request_data.get("stream", False)
StreamField(request_data) == DictGetOr(request_data, "stream", JBool(FALSE))

\* A faulty streaming check: it never fires.
RejectsNever(flags, request_data) == FALSE

\* if stream and not supports_streaming and map_response
Rejects(flags, request_data) ==
    /\ Truthy(StreamField(request_data))
    /\ ~flags.supports_streaming
    /\ flags.map_response

Raised(error, invoked, args) ==
    [state |-> "done", kind |-> "raised", error |-> error, route |-> "none",
     invoked |-> invoked, args |-> args]

Returned(value, route, invoked, args) ==
    [state |-> "done", kind |-> "returned", value |-> value, route |-> route,
     invoked |-> invoked, args |-> args]

\* The branch taken when the streaming check fires. The assignment
\* `model_name = request_data.get("model", "EasyMaaS")` further down makes
\* model_name a local of wrapper for its whole body, so the two f-strings of
\* this branch read a local that is not bound yet: model_name_local is Unbound
\* and the read raises UnboundLocalError before anything is returned.
RejectStreaming(model_name_local) ==
    IF model_name_local = Unbound
    THEN Raised("UnboundLocalError", 0, <<>>)
    ELSE Returned(StreamingNotSupported(model_name_local), "rejected", 0, <<>>)

\* A faulty routing: the streaming test comes before the map_response test.
RouteResultStreamFirst(flags, request_data, result, args, now) ==
    LET model_name == DictGetOr(request_data, "model", DefaultModel)
    IN IF Truthy(StreamField(request_data)) /\ flags.supports_streaming
       THEN Returned(create_stream_response(result, model_name, now), "stream", 1, args)
       ELSE IF flags.map_response
       THEN LET r == create_response(request_data, result, model_name,
                                     FreshUuids(0, 2), now)
            IN IF r.raised THEN Raised("ComposeError", 1, args)
               ELSE Returned(r.response, "compose", 1, args)
       ELSE Returned(result, "raw", 1, args)

\* What follows `result = func(**params)` when the function returned.
RouteResult(flags, request_data, result, args, now) ==
    IF flags.map_response
    THEN LET model_name == DictGetOr(request_data, "model", DefaultModel)
         IN IF Truthy(StreamField(request_data)) /\ flags.supports_streaming
            THEN Returned(create_stream_response(result, model_name, now),
                          "stream", 1, args)
            ELSE LET r == create_response(request_data, result, model_name,
                                          FreshUuids(0, 2), now)
                 IN IF r.raised THEN Raised("ComposeError", 1, args)
                    ELSE Returned(r.response, "compose", 1, args)
    ELSE Returned(result, "raw", 1, args)

\* func(**params) and what follows. The call fails before the function runs
\* when params does not name every declared parameter (TypeError); outcome is what
\* the function does once it runs: it raises, or it returns outcome.result.
Invoke(h, request_data, params, outcome, now) ==
    IF Len(params) # Len(h.func.params)
    THEN Raised("TypeError", 0, params)
    ELSE IF outcome.raises
    THEN Raised("UserError", 1, params)
    ELSE RouteResult(h.flags, request_data, outcome.result, params, now)

\* wrapper(request_data) of handler h; invoked counts the runs of the function.
wrapper(h, request_data, outcome, now) ==
    IF Rejects(h.flags, request_data)
    THEN RejectStreaming(Unbound)
    ELSE IF h.flags.map_request
    THEN Invoke(h, request_data,
                map_request_to_params(h.func, request_data).params, outcome, now)
    ELSE LET param_names == h.func.params
         IN IF Len(param_names) = 0
            THEN Raised("ValueError", 0, <<>>)
            ELSE Invoke(h, request_data, <<KV(param_names[1], request_data)>>,
                        outcome, now)

-----------------------------------------------------------------------------
(* Bounded inputs of the resolver *)

MaxNodes == 3      \* nodes (scalars and containers) of a generated JSON value
MaxParams == 2     \* declared parameters of a user function
MaxMsgs == 2       \* messages of a chat request body

Keys == {"content", "request", "role"}
Scalars == {JNone, Word("hello")}

\* Sequences of n distinct elements of S.
RECURSIVE DistinctSeqs(_, _)
DistinctSeqs(S, n) ==
    IF n = 0 THEN {<<>>}
    ELSE {Append(p[1], p[2]) :
            p \in {q \in DistinctSeqs(S, n - 1) \X S :
                     \A i \in 1..Len(q[1]) : q[1][i] # q[2]}}

KeySeqs(n) == DistinctSeqs(Keys, n)

\* Every JSON value of exactly n nodes over Keys and Scalars.
RECURSIVE ValuesOfSize(_)
RECURSIVE ChildSeqs(_)
ChildSeqs(m) ==
    IF m = 0 THEN {<<>>}
    ELSE UNION {{<<v>> \o rest : v \in ValuesOfSize(j), rest \in ChildSeqs(m - j)} :
                  j \in 1..m}

ValuesOfSize(n) ==
    (IF n = 1 THEN Scalars ELSE {})
    \cup {JList(cs) : cs \in ChildSeqs(n - 1)}
    \cup UNION {{JDict([i \in 1..Len(cs) |-> KV(ks[i], cs[i])]) : ks \in KeySeqs(Len(cs))} :
                  cs \in ChildSeqs(n - 1)}

SmallValues == UNION {ValuesOfSize(n) : n \in 1..MaxNodes}

\* {k: s}
Leaf1 == {JDict(<<KV(k, s)>>) : k \in Keys, s \in Scalars}

\* {k1: v1, k2: v2}, each value a scalar or {k: s}: a key held directly, below
\* an earlier or a later entry, or below two sibling entries
Siblings ==
    {JDict(<<KV(ks[1], v1), KV(ks[2], v2)>>) :
        ks \in KeySeqs(2), v1 \in Leaf1 \cup Scalars, v2 \in Leaf1 \cup Scalars}

\* {k1: {k2: {k3: s}}}
Nested == {JDict(<<KV(k, JDict(<<KV(k2, d)>>))>>) : k \in Keys, k2 \in Keys, d \in Leaf1}

\* {k: [e1, e2]} and [e1, e2]: a sequence whose elements hold keys
ListElems == Leaf1 \cup {JNone, JList(<<JDict(<<KV("content", Word("hello"))>>)>>)}
PairLists == {JList(<<e1, e2>>) : e1 \in ListElems, e2 \in ListElems}
ListShapes == PairLists \cup {JDict(<<KV(k, l)>>) : k \in Keys, l \in PairLists}

\* {"messages": [{"role": "user", "content": c}, ...]}
Contents == {Word("hello"), JStr(<<"a", " ", "b">>)}
Messages == {JDict(<<KV("role", Word("user")), KV("content", c)>>) : c \in Contents}
MessageLists == UNION {[1..n -> Messages] : n \in 0..MaxMsgs}
ChatBodies == {JDict(<<KV("messages", JList(ms))>>) : ms \in MessageLists}

ResolverValues == SmallValues \cup Siblings \cup Nested \cup ListShapes \cup ChatBodies

ParamLists == UNION {KeySeqs(n) : n \in 0..MaxParams}

\* The value update writes: it occurs in no generated value.
NewValue == Word("NEW")

-----------------------------------------------------------------------------
(* State outside a specification's scope *)

NoCall == [state |-> "none"]
NoGen == [state |-> "none"]
Idle == [op |-> "idle"]

RegistryIdle ==
    /\ services = <<>>
    /\ configs = <<>>
    /\ lastReg = <<>>
    /\ regs = 0
    /\ threads = <<>>

DispatchIdle ==
    /\ call = NoCall
    /\ gen = NoGen
    /\ frames = <<>>

-----------------------------------------------------------------------------
(* The resolver and the parameter mapper applied to drawn inputs *)

ResolverInit ==
    /\ RegistryIdle
    /\ DispatchIdle
    /\ input \in [value : ResolverValues, key : Keys]
    /\ output = Idle

\* found, value = _find_key_in_json(value, key)
Find ==
    /\ output = Idle
    /\ output' = [op |-> "find", r |-> find_key_in_json(input.value, input.key)]
    /\ UNCHANGED <<services, configs, lastReg, regs, threads, call, gen, frames, input>>

\* _update_json_with_key(value, key, NewValue), value a dict as its callers pass
Update ==
    /\ output = Idle
    /\ IsDict(input.value)
    /\ output' = [op |-> "update",
                  r |-> update_json_with_key(input.value, input.key, NewValue)]
    /\ UNCHANGED <<services, configs, lastReg, regs, threads, call, gen, frames, input>>

\* Declared parameter lists whose first parameter is `first`.
ParamListsFrom(first) ==
    {names \in ParamLists : Len(names) > 0 /\ names[1] = first}

\* params = _map_request_to_params(func, value), value the request body (a dict)
\* and func declaring no parameter, or key and then others
Map ==
    /\ output = Idle
    /\ IsDict(input.value)
    /\ \E names \in {<<>>} \cup ParamListsFrom(input.key) :
         output' = [op |-> "map", names |-> names,
                    r |-> map_request_to_params([params |-> names], input.value)]
    /\ UNCHANGED <<services, configs, lastReg, regs, threads, call, gen, frames, input>>

ResolverNext == Find \/ Update \/ Map

SpecResolver == ResolverInit /\ [][ResolverNext]_vars

-----------------------------------------------------------------------------
(* The response composer applied to drawn inputs *)

MaxEntries == 2    \* entries of an object a user function returns


\* Messages the prompt count skips (no content, not an object) or fails on.
OddMessages ==
    {JDict(<<KV("role", Word("user"))>>), Word("hello"),
     JDict(<<KV("role", Word("user")), KV("content", JNone)>>)}
ComposeMessageLists == UNION {[1..n -> Messages \cup OddMessages] : n \in 0..MaxMsgs}
ComposeBodies ==
    {JDict(<<KV("messages", JList(ms))>>) : ms \in ComposeMessageLists}
    \cup {JDict(<<>>), JDict(<<KV("messages", JNone)>>)}

\* Objects a user function returns: keys of the envelope, at several depths,
\* and a key the envelope does not have.
ResultKeys == {"id", "choices", "content", "usage", "total_tokens", "extra"}
ResultScalars == {Word("hi"), JInt(7)}
ResultDicts ==
    UNION {UNION {{JDict([i \in 1..n |-> KV(ks[i], vs[i])]) : vs \in [1..n -> ResultScalars]} :
                    ks \in DistinctSeqs(ResultKeys, n)} : n \in 0..MaxEntries}

Results ==
    {JNone, Word("hi"), JStr(<<"a", " ", "b">>), JStr(<<>>), JInt(7), JBool(TRUE),
     JList(<<>>), JList(<<JInt(1), JInt(2), JInt(3)>>)}
    \cup ResultDicts

ComposeInit ==
    /\ RegistryIdle
    /\ DispatchIdle
    /\ input \in [body : ComposeBodies, result : Results]
    /\ output = Idle

\* response = _create_response(func, body, result, body.get("model", "EasyMaaS"))
Compose ==
    /\ output = Idle
    /\ \E now \in Times :
         output' = [op |-> "compose",
                    r |-> create_response(input.body, input.result,
                                          DictGetOr(input.body, "model", DefaultModel),
                                          FreshUuids(0, 2), now)]
    /\ UNCHANGED <<services, configs, lastReg, regs, threads, call, gen, frames, input>>

ComposeNext == Compose

SpecCompose == ComposeInit /\ [][ComposeNext]_vars

-----------------------------------------------------------------------------
(* The registry under a sequence of register calls *)

MaxRegs == 3       \* register calls made

Names == {"m1", "m2"}

\* User functions by their declared parameters.
Funcs ==
    {[params |-> <<>>], [params |-> <<"content">>],
     [params |-> <<"request", "temperature">>]}

AllFlags ==
    {Flags(a, b, c) : a \in BOOLEAN, b \in BOOLEAN, c \in BOOLEAN}

RegistryInit ==
    /\ RegistryIdle
    /\ DispatchIdle
    /\ input = Idle
    /\ output = Idle

\* @service(model_name, ...) applied to func: ServiceRegistry.register(...)
Register ==
    /\ regs < MaxRegs
    /\ \E model_name \in Names, func \in Funcs, flags \in AllFlags :
         LET registry == register([services |-> services, configs |-> configs],
                                  regs + 1, model_name, func, flags)
         IN /\ services' = registry.services
            /\ configs' = registry.configs
            /\ lastReg' = (model_name :> [reg |-> regs + 1, func |-> func, flags |-> flags])
                          @@ lastReg
            /\ regs' = regs + 1
    /\ UNCHANGED <<threads, call, gen, frames, input, output>>

RegistryNext == Register

SpecRegistry == RegistryInit /\ [][RegistryNext]_vars

-----------------------------------------------------------------------------
(* Two register calls made by concurrent threads. register takes no lock: a  *)
(* thread may be suspended anywhere between its two stores, the assignment   *)
(* to _service_configs[model_name] at the top of the body and the assignment *)
(* to _services[model_name] at its end. Each store is one atomic dictionary  *)
(* assignment.                                                               *)

Threads == {"t1", "t2"}

NotCalled == [pc |-> "idle"]

ConcurrentInit ==
    /\ services = <<>>
    /\ configs = <<>>
    /\ lastReg = <<>>
    /\ regs = 0
    /\ threads = [t \in Threads |-> NotCalled]
    /\ DispatchIdle
    /\ input = Idle
    /\ output = Idle

\* Thread t calls ServiceRegistry.register(model_name, func, ...flags).
EnterRegister(t) ==
    /\ threads[t] = NotCalled
    /\ \E model_name \in Names, func \in Funcs, flags \in AllFlags :
         threads' = [threads EXCEPT ![t] =
                        [pc |-> "config", reg |-> regs + 1, model_name |-> model_name,
                         func |-> func, flags |-> flags]]
    /\ regs' = regs + 1
    /\ UNCHANGED <<services, configs, lastReg, call, gen, frames, input, output>>

\* cls._service_configs[model_name] = {...}
StoreConfig(t) ==
    /\ threads[t].pc = "config"
    /\ configs' = (threads[t].model_name :> threads[t].flags) @@ configs
    /\ threads' = [threads EXCEPT ![t].pc = "service"]
    /\ UNCHANGED <<services, lastReg, regs, call, gen, frames, input, output>>

\* wrapper is built, then cls._services[model_name] = wrapper and register returns.
StoreService(t) ==
    /\ threads[t].pc = "service"
    /\ services' = (threads[t].model_name :>
                        Handler(threads[t].reg, threads[t].func, threads[t].flags))
                    @@ services
    /\ lastReg' = (threads[t].model_name :>
                       [reg |-> threads[t].reg, func |-> threads[t].func,
                        flags |-> threads[t].flags]) @@ lastReg
    /\ threads' = [threads EXCEPT ![t].pc = "done"]
    /\ UNCHANGED <<configs, regs, call, gen, frames, input, output>>

ConcurrentNext ==
    \E t \in Threads : EnterRegister(t) \/ StoreConfig(t) \/ StoreService(t)

SpecConcurrent == ConcurrentInit /\ [][ConcurrentNext]_vars

-----------------------------------------------------------------------------
(* Dispatch and streaming against a loaded registry *)

MaxChunks == 2     \* chunks a chunk source yields

\* Request bodies: model names a registered service, another, or is absent;
\* stream is absent, false or true.
DispatchBodies ==
    {JDict(model \o <<KV("messages", JList(<<
                JDict(<<KV("role", Word("user")), KV("content", Word("hello"))>>)>>))>>
           \o stream) :
        model \in {<<>>} \cup {<<KV("model", Word(n))>> : n \in Names},
        stream \in {<<>>, <<KV("stream", JBool(FALSE))>>, <<KV("stream", JBool(TRUE))>>}}

\* What a chunk source yields.
Chunks ==
    {Word("a"), JNone, JInt(7), JDict(<<KV("id", Word("x"))>>),
     JDict(<<KV("content", Word("c")), KV("extra", JInt(1))>>)}

\* Generators and async generators: the chunks yielded, then exhaustion or,
\* with fails, an exception whose text is ErrorText.
ChunkSources ==
    UNION {[t : {"gen", "asyncgen"}, chunks : [1..n -> Chunks], fails : BOOLEAN] :
             n \in 0..MaxChunks}

ErrorText == <<"boom">>

\* What a user function does once it runs.
Outcomes ==
    {[raises |-> TRUE]}
    \cup {[raises |-> FALSE, result |-> r] :
            r \in {JNone, Word("hi"), JInt(7), JList(<<JInt(1)>>),
                   JDict(<<KV("content", Word("hi"))>>)} \cup ChunkSources}

\* The registry after service loading registered one service.
Init ==
    /\ \E model_name \in Names, func \in Funcs, flags \in AllFlags :
         LET registry == register(EmptyRegistry, 1, model_name, func, flags)
         IN /\ services = registry.services
            /\ configs = registry.configs
            /\ lastReg = (model_name :> [reg |-> 1, func |-> func, flags |-> flags])
            /\ regs = 1
    /\ threads = <<>>
    /\ DispatchIdle
    /\ input = Idle
    /\ output = Idle

\* The model name chat_completion looks the service up by.
RequestedModel(request_data) ==
    LET m == DictGetOr(request_data, "model", JStr(<<>>))
    IN IF Len(m.s) = 0 THEN "" ELSE m.s[1]

\* POST /v1/chat/completions with body request_data: the service is looked up
\* by the body's model and, if there is one, its wrapper runs to its end. One
\* request is followed: requests share nothing but the registry they read.
\* result is wrapper's local of that name: what func(**params) returned, Unbound
\* when the assignment was not reached.
Dispatch ==
    /\ call = NoCall
    /\ \E request_data \in DispatchBodies, outcome \in Outcomes, now \in Times :
         LET service == get_service(RequestedModel(request_data))
             done == IF service = NoService
                     THEN [state |-> "done", kind |-> "http404", route |-> "none",
                           invoked |-> 0, args |-> <<>>]
                     ELSE wrapper(service, request_data, outcome, now)
         IN /\ call' = [done EXCEPT !.state = "done"] @@
                       [body |-> request_data,
                        flags |-> IF service = NoService THEN NoConfig ELSE service.flags,
                        func |-> IF service = NoService THEN NoService ELSE service.func,
                        result |-> IF done.invoked = 1 /\ ~outcome.raises
                                   THEN outcome.result ELSE Unbound]
            /\ gen' = IF done.kind = "returned" /\ done.route = "stream"
                      THEN done.value ELSE NoGen
            /\ frames' = <<>>
    /\ UNCHANGED <<services, configs, lastReg, regs, threads, input, output>>

\* A faulty stream_generator: the except branch sits inside the loop, so the
\* source is asked again after the error frame.
StreamStepKeepsGoing(g, fs) ==
    LET uuid == Uuid(g.minted + 1)
        more == [g EXCEPT !.pulled = @ + 1, !.minted = @ + 1, !.state = "running"]
    IN IF IsGenerator(g.result)
       THEN IF g.pulled < Len(g.result.chunks)
            THEN [gen |-> more,
                  frames |-> Append(fs, Frame(process_stream_chunk(
                                 g.result.chunks[g.pulled + 1], g.response_id,
                                 g.model_name, uuid, g.now)))]
            ELSE IF g.result.fails
            THEN [gen |-> more,
                  frames |-> Append(fs, Frame(error_chunk(ErrorText, g.response_id,
                                                          g.model_name, uuid, g.now)))]
            ELSE [gen |-> [g EXCEPT !.pulled = @ + 1, !.state = "done"], frames |-> fs]
       ELSE [gen |-> [g EXCEPT !.state = "done"], frames |-> fs]

\* A faulty stream_generator: it drains the source (list(result)) before it
\* yields the first frame, then frames the chunks it holds one by one.
StreamStepBuffered(g, fs) ==
    LET uuid == Uuid(g.minted + 1)
        chunk == IF IsGenerator(g.result) THEN g.result.chunks[Len(fs) + 1] ELSE g.result
        frame == Frame(process_stream_chunk(chunk, g.response_id, g.model_name,
                                            uuid, g.now))
    IN IF IsGenerator(g.result)
       THEN IF Len(fs) < Len(g.result.chunks)
            THEN [gen |-> [g EXCEPT !.pulled = Len(g.result.chunks) + 1,
                                    !.minted = @ + 1, !.state = "running"],
                  frames |-> Append(fs, frame)]
            ELSE [gen |-> [g EXCEPT !.pulled = Len(g.result.chunks) + 1,
                                    !.state = "done"],
                  frames |-> fs]
       ELSE IF g.state = "created"
       THEN [gen |-> [g EXCEPT !.minted = @ + 1, !.state = "running"],
             frames |-> Append(fs, frame)]
       ELSE [gen |-> [g EXCEPT !.state = "done"], frames |-> fs]

\* One step of stream_generator, from one yield (or its start) to the next yield
\* or its end: the next chunk is requested from the source and framed; a source
\* that raises gives the terminal error frame, after which the generator ends;
\* a result that is no generator is framed as the only chunk.
StreamStep(g, fs) ==
    LET uuid == Uuid(g.minted + 1)
        more == [g EXCEPT !.pulled = @ + 1, !.minted = @ + 1, !.state = "running"]
    IN IF g.state = "failed"
       THEN [gen |-> [g EXCEPT !.state = "done"], frames |-> fs]
       ELSE IF IsGenerator(g.result)
       THEN IF g.pulled < Len(g.result.chunks)
            THEN [gen |-> more,
                  frames |-> Append(fs, Frame(process_stream_chunk(
                                 g.result.chunks[g.pulled + 1], g.response_id,
                                 g.model_name, uuid, g.now)))]
            ELSE IF g.result.fails
            THEN [gen |-> [more EXCEPT !.state = "failed"],
                  frames |-> Append(fs, Frame(error_chunk(ErrorText, g.response_id,
                                                          g.model_name, uuid, g.now)))]
            ELSE [gen |-> [g EXCEPT !.pulled = @ + 1, !.state = "done"], frames |-> fs]
       ELSE IF g.state = "created"
       THEN [gen |-> [g EXCEPT !.minted = @ + 1, !.state = "running"],
             frames |-> Append(fs, Frame(process_stream_chunk(
                            g.result, g.response_id, g.model_name, uuid, g.now)))]
       ELSE [gen |-> [g EXCEPT !.state = "done"], frames |-> fs]

\* The consumer of the StreamingResponse asks stream_generator for its next frame.
StreamNext ==
    /\ gen # NoGen
    /\ gen.state # "done"
    /\ LET step == StreamStep(gen, frames)
       IN /\ gen' = step.gen
          /\ frames' = step.frames
    /\ UNCHANGED <<services, configs, lastReg, regs, threads, call, input, output>>

Next == Dispatch \/ StreamNext

Spec == Init /\ [][Next]_vars

-----------------------------------------------------------------------------
(* Positions in a JSON value, for stating what the resolver reads and writes *)

Children(v) ==
    IF IsDict(v) THEN [i \in 1..Len(v.items) |-> v.items[i].v]
    ELSE IF IsList(v) THEN v.elems
    ELSE <<>>

\* The paths (index sequences) of the values held anywhere below v.
RECURSIVE Slots(_)
Slots(v) ==
    UNION {{<<i>>} \cup {<<i>> \o p : p \in Slots(Children(v)[i])} :
             i \in 1..Len(Children(v))}

RECURSIVE At(_, _)
At(v, p) == IF Len(p) = 0 THEN v ELSE At(Children(v)[p[1]], Tail(p))

RECURSIVE Put(_, _, _)
Put(v, p, new) ==
    IF Len(p) = 0 THEN new
    ELSE IF IsDict(v)
    THEN JDict([v.items EXCEPT ![p[1]].v = Put(@, Tail(p), new)])
    ELSE JList([v.elems EXCEPT ![p[1]] = Put(@, Tail(p), new)])

\* The slot at path p of v is the entry `key` of an object.
IsKeySlot(v, p, key) ==
    LET parent == At(v, SubSeq(p, 1, Len(p) - 1))
    IN IsDict(parent) /\ parent.items[p[Len(p)]].k = key

\* Some object in v, at any depth, has `key`.
Occurs(v, key) ==
    \E p \in Slots(v) \cup {<<>>} : IsDict(At(v, p)) /\ HasKey(At(v, p), key)

\* The value the mapper bound to parameter `name`.
Bound(r, name) == DictGet(JDict(r.params), name)

-----------------------------------------------------------------------------
(* Claims about the resolver and the parameter mapper *)

\* C6: with request auto-mapping, a declared parameter named "request" is bound
\* to the whole request body, with no key lookup, whatever the body holds.
C6_RequestParamGetsBody ==
    (output.op = "map" /\ \E i \in 1..Len(output.names) : output.names[i] = "request")
        => Bound(output.r, "request") = input.value

\* C7: when the value searched is an object that directly holds the key, find
\* returns (true, value[key]), also when an earlier entry holds the key deeper.
C7_DirectKeyWins ==
    (output.op = "find" /\ IsDict(input.value) /\ HasKey(input.value, input.key))
        => output.r = [found |-> TRUE, result |-> DictGet(input.value, input.key)]

\* C7 witness: find ran on an object holding the key directly and, in an earlier
\* entry, nested with another value.
C7_Witness ==
    /\ output.op = "find"
    /\ IsDict(input.value)
    /\ HasKey(input.value, input.key)
    /\ \E i \in 1..(KeyIndex(input.value, input.key) - 1) :
         LET v == input.value.items[i].v
         IN /\ IsDict(v)
            /\ HasKey(v, input.key)
            /\ DictGet(v, input.key) # DictGet(input.value, input.key)

\* The last message's content of a chat body.
LastContent(body) ==
    LET ms == DictGet(body, "messages").elems
    IN DictGet(ms[Len(ms)], "content")

\* C8: find on a sequence searches its last element only, and only if that is
\* an object: an empty sequence, a non-object last element, or a key that no
\* object of the last element holds, is not-found whatever earlier elements
\* hold; `content` against {"messages": [..., {role, content: c}]} gives c.
C8_ListLastElementOnly ==
    /\ (output.op = "find" /\ IsList(input.value)) =>
         LET elems == input.value.elems
             n == Len(elems)
         IN IF n = 0 \/ ~IsDict(elems[n]) \/ ~Occurs(elems[n], input.key)
            THEN output.r = NotFound
            ELSE output.r = find_key_in_json(elems[n], input.key)
    /\ (output.op = "find" /\ input.value \in ChatBodies /\ input.key = "content"
          /\ Len(DictGet(input.value, "messages").elems) > 0) =>
         output.r = [found |-> TRUE, result |-> LastContent(input.value)]

\* C8 witness: find ran on a sequence of two elements whose first element holds
\* the key and whose last element is an object without it, and found nothing.
C8_Witness ==
    /\ output.op = "find"
    /\ IsList(input.value)
    /\ Len(input.value.elems) = 2
    /\ Occurs(input.value.elems[1], input.key)
    /\ IsDict(input.value.elems[2])
    /\ ~output.r.found

\* C9: update succeeds exactly when find finds; then it replaces one slot, an
\* entry `key` that held what find returned, find on the result returns the
\* new value, and nothing else changes; otherwise the structure is unchanged.
C9_UpdateFollowsFind ==
    output.op = "update" =>
        LET f == find_key_in_json(input.value, input.key)
            u == output.r
        IN /\ u.ok = f.found
           /\ f.found =>
                /\ find_key_in_json(u.obj, input.key) = [found |-> TRUE, result |-> NewValue]
                /\ \E p \in Slots(input.value) :
                     /\ IsKeySlot(input.value, p, input.key)
                     /\ At(input.value, p) = f.result
                     /\ u.obj = Put(input.value, p, NewValue)
           /\ ~f.found => u.obj = input.value

\* C9 witness: update replaced an entry below the last element of a list while
\* an earlier element of that list holds the key too.
C9_Witness ==
    /\ output.op = "update"
    /\ output.r.ok
    /\ ~HasKey(input.value, input.key)
    /\ \E i \in 1..Len(input.value.items) :
         LET v == input.value.items[i].v
         IN /\ IsList(v)
            /\ Len(v.elems) = 2
            /\ Occurs(v.elems[1], input.key)
            /\ v.elems[2] # output.r.obj.items[i].v.elems[2]

-----------------------------------------------------------------------------
(* Claims about the response composer *)

\* C10: every envelope composed for a return value that is not an object (None,
\* text, a list, another scalar) has total_tokens = prompt_tokens +
\* completion_tokens, for request bodies with any number of messages.
C10_TotalIsPromptPlusCompletion ==
    (output.op = "compose" /\ ~output.r.raised /\ ~IsDict(input.result)) =>
        Usage(output.r.response, "total_tokens") =
            Usage(output.r.response, "prompt_tokens")
            + Usage(output.r.response, "completion_tokens")

\* d is an object holding each of the keys.
HasKeys(d, keys) == IsDict(d) /\ \A k \in keys : HasKey(d, k)

\* The non-stream skeleton: the top-level fields, one choice holding index,
\* message{role, content} and finish_reason, and the three usage counters.
FullSkeleton(response) ==
    /\ HasKeys(response, {"id", "object", "created", "model", "choices", "usage"})
    /\ LET choices == DictGet(response, "choices")
       IN /\ IsList(choices)
          /\ Len(choices.elems) = 1
          /\ HasKeys(choices.elems[1], {"index", "message", "finish_reason"})
          /\ HasKeys(DictGet(choices.elems[1], "message"), {"role", "content"})
    /\ HasKeys(DictGet(response, "usage"),
               {"prompt_tokens", "completion_tokens", "total_tokens"})

\* C11: every envelope the composer returns, for a return value that is None,
\* text, a list, an object with any keys and values, or another scalar, keeps
\* the full non-stream skeleton.
C11_EnvelopeKeepsSkeleton ==
    (output.op = "compose" /\ ~output.r.raised) => FullSkeleton(output.r.response)

-----------------------------------------------------------------------------
(* Claims about the dispatch wrapper *)

\* The wrapper of a registered service ran to its end.
WrapperRan == call.state = "done" /\ call.kind # "http404"

\* The request asks for streaming of a handler that maps responses and does
\* not support streaming.
StreamingUnsupported ==
    /\ Truthy(StreamField(call.body))
    /\ call.flags.map_response
    /\ ~call.flags.supports_streaming

\* The handler does not map requests and its function declares no parameter.
Misconfigured == ~call.flags.map_request /\ Len(call.func.params) = 0

IsStreamingNotSupportedPayload(value) ==
    /\ value.t = "dict"
    /\ DictKeys(value) = <<"error">>
    /\ LET e == DictGet(value, "error")
       IN /\ e.t = "dict"
          /\ DictKeys(e) = <<"message", "type", "param", "code">>
          /\ DictGet(e, "type") = Word("invalid_request_error")
          /\ DictGet(e, "param") = Word("stream")
          /\ DictGet(e, "code") = Word("streaming_not_supported")

\* C1: a handler registered with map_response and without supports_streaming,
\* dispatched a body whose stream field is true, returns the structured
\* streaming_not_supported error payload as an ordinary result; no failure is
\* raised to the caller.
C1_StreamingRejectedWithPayload ==
    (WrapperRan /\ StreamingUnsupported /\ StreamField(call.body) = JBool(TRUE))
        => /\ call.kind = "returned"
           /\ IsStreamingNotSupportedPayload(call.value)

\* C2: in one dispatch the user function runs at most once, and not at all when
\* streaming is requested of a response-mapping handler without streaming
\* support, nor when the handler does not map requests and the function
\* declares no parameter.
C2_InvokedAtMostOnce ==
    WrapperRan =>
        /\ call.invoked \in {0, 1}
        /\ StreamingUnsupported => call.invoked = 0
        /\ Misconfigured => call.invoked = 0

\* C2 witness: a dispatch asked a response-mapping handler without streaming
\* support for a stream, and ended without the function having run.
C2_Witness ==
    /\ WrapperRan
    /\ StreamingUnsupported
    /\ ~Misconfigured
    /\ call.flags.map_request
    /\ call.invoked = 0

\* The user function ran and returned: wrapper's local result is bound.
FunctionReturned == WrapperRan /\ call.result # Unbound

\* C12: when the user function returns normally, a handler that does not map
\* responses returns the raw return value unchanged, whatever stream and
\* supports_streaming are; a handler that maps responses returns the streaming
\* composer's response exactly when the request asks for streaming and the
\* handler supports it, and otherwise what the non-stream composer gives.
C12_RouteFixedByFlags ==
    FunctionReturned =>
        LET model_name == DictGetOr(call.body, "model", DefaultModel)
        IN IF ~call.flags.map_response
           THEN /\ call.kind = "returned"
                /\ call.route = "raw"
                /\ call.value = call.result
           ELSE IF Truthy(StreamField(call.body)) /\ call.flags.supports_streaming
           THEN /\ call.kind = "returned"
                /\ call.route = "stream"
                /\ \E now \in Times :
                     call.value = create_stream_response(call.result, model_name, now)
           ELSE \E now \in Times :
                  LET r == create_response(call.body, call.result, model_name,
                                           FreshUuids(0, 2), now)
                  IN IF r.raised
                     THEN call.kind = "raised" /\ call.error = "ComposeError"
                     ELSE /\ call.kind = "returned"
                          /\ call.route = "compose"
                          /\ call.value = r.response

\* C12 witness: a handler that does not map responses and does not support
\* streaming was asked for a stream, and the raw return value came back.
C12_Witness ==
    /\ FunctionReturned
    /\ ~call.flags.map_response
    /\ ~call.flags.supports_streaming
    /\ StreamField(call.body) = JBool(TRUE)
    /\ call.kind = "returned"
    /\ call.value = JInt(7)

\* The wrapper of a request-mapping handler got past the streaming check, to
\* the parameter mapper.
MapperRan == WrapperRan /\ call.flags.map_request /\ ~StreamingUnsupported

\* C13: with map_request the mapper raises for no parameter: the bindings are
\* those of exactly the declared parameter names, in order, each bound to the
\* value the resolver finds in the body and to None when it finds none, and
\* the function is then invoked with these bindings.
C13_UnresolvedParamsBoundToNone ==
    MapperRan =>
        LET names == call.func.params
        IN /\ call.invoked = 1
           /\ ~(call.kind = "raised" /\ call.error \in {"TypeError", "ValueError"})
           /\ Len(call.args) = Len(names)
           /\ \A i \in 1..Len(names) :
                LET f == find_key_in_json(call.body, names[i])
                IN /\ call.args[i].k = names[i]
                   /\ call.args[i].v = IF f.found THEN f.result ELSE JNone

\* C13 witness: a function declaring two parameters the body resolves neither
\* of ran with both bound to None, and returned.
C13_Witness ==
    /\ MapperRan
    /\ Len(call.func.params) = 2
    /\ \A i \in 1..2 : ~find_key_in_json(call.body, call.func.params[i]).found
    /\ call.invoked = 1
    /\ call.kind = "returned"
    /\ \A i \in 1..2 : call.args[i].v = JNone

-----------------------------------------------------------------------------
(* Claims about the streaming composer *)

FrameId(frame) == DictGet(frame.data, "id")
FrameChoice(frame) == DictGet(frame.data, "choices").elems[1]
FrameFinishReason(frame) == DictGet(FrameChoice(frame), "finish_reason")
FrameContent(frame) == DictGet(DictGet(FrameChoice(frame), "delta"), "content")

\* A streaming response over a chunk source that raises after its chunks.
FailingSource == gen # NoGen /\ IsGenerator(gen.result) /\ gen.result.fails

\* C3: a chunk source yielding k chunks and then raising gives k + 1 frames:
\* the k frames of its chunks, in order, then one frame with finish_reason
\* "error" whose content carries the error text; the sequence then ends with
\* no further chunk requested, the failure being consumed by the generator.
C3_FailingSourceEndsWithErrorFrame ==
    FailingSource =>
        LET chunks == gen.result.chunks
            k == Len(chunks)
        IN /\ Len(frames) <= k + 1
           /\ gen.pulled <= k + 1
           /\ \A i \in 1..Len(frames) :
                IF i <= k
                THEN frames[i] = Frame(process_stream_chunk(
                                    chunks[i], gen.response_id, gen.model_name,
                                    Uuid(i + 1), gen.now))
                ELSE /\ FrameFinishReason(frames[i]) = Word("error")
                     /\ FrameContent(frames[i]) = JStr(<<"Error:", " ">> \o ErrorText)
           /\ gen.state \in {"failed", "done"} =>
                /\ Len(frames) = k + 1
                /\ gen.pulled = k + 1

\* C3 witness: a source that raised after two chunks was consumed to its end,
\* giving three frames.
C3_Witness ==
    /\ FailingSource
    /\ Len(gen.result.chunks) = 2
    /\ gen.state = "done"
    /\ Len(frames) = 3

\* C4: every frame of a streaming invocation, the terminal error frame too,
\* carries the id minted at the start of the invocation, whatever the chunks
\* are (text, None, objects with any keys, other scalars).
C4_AllFramesShareMintedId ==
    gen # NoGen => \A i \in 1..Len(frames) : FrameId(frames[i]) = gen.response_id

\* A streaming response over a generator or async generator that does not raise.
SoundSource == gen # NoGen /\ IsGenerator(gen.result) /\ ~gen.result.fails

\* A streaming response over a result that cannot be iterated.
NonIterableResult == gen # NoGen /\ gen.result.t \in {"none", "bool", "int"}

\* The frame stream_generator yields for the i-th chunk it processes.
FrameOf(chunk, i) ==
    Frame(process_stream_chunk(chunk, gen.response_id, gen.model_name,
                               Uuid(i + 1), gen.now))

\* C15: over a chunk source that does not fail, the frames handed to the
\* caller are those of the chunks produced so far, one per chunk and in the
\* chunks' order, and every chunk requested from the source has had its frame
\* handed over before the next chunk is requested: at each yield the chunks
\* requested and the frames handed over are equally many, and the sequence
\* ends with one frame per chunk. A result that cannot be iterated is framed
\* as the only chunk: exactly one frame, nothing requested from a source.
C15_OneFramePerChunkUnbuffered ==
    /\ SoundSource =>
          LET chunks == gen.result.chunks
              k == Len(chunks)
          IN /\ Len(frames) <= k
             /\ \A i \in 1..Len(frames) : frames[i] = FrameOf(chunks[i], i)
             /\ gen.pulled <= Len(frames) + 1
             /\ gen.state # "done" => gen.pulled = Len(frames)
             /\ gen.state = "done" => Len(frames) = k /\ gen.pulled = k + 1
    /\ NonIterableResult =>
          /\ gen.pulled = 0
          /\ frames = IF gen.state = "created" THEN <<>>
                      ELSE <<FrameOf(gen.result, 1)>>

\* C15 witness: a source of two different chunks that does not fail was
\* consumed to its end, giving the two frames in the chunks' order.
C15_Witness ==
    /\ SoundSource
    /\ Len(gen.result.chunks) = 2
    /\ gen.result.chunks[1] # gen.result.chunks[2]
    /\ gen.state = "done"
    /\ frames = <<FrameOf(gen.result.chunks[1], 1), FrameOf(gen.result.chunks[2], 2)>>

-----------------------------------------------------------------------------
(* Claims about the registry *)

\* C5: after any sequence of register calls, get(name) is the handler the latest
\* register call for name built and getConfig(name) that call's flags; nothing
\* an earlier call for the name built is reachable, a name never registered
\* has neither, and list() is the set of the names registered.
C5_LatestRegistrationWins ==
    /\ list_services = DOMAIN lastReg
    /\ \A name \in Names :
         IF name \in DOMAIN lastReg
         THEN /\ get_service(name) = Handler(lastReg[name].reg, lastReg[name].func,
                                             lastReg[name].flags)
              /\ get_service_config(name) = lastReg[name].flags
         ELSE /\ get_service(name) = NoService
              /\ get_service_config(name) = NoConfig

\* Both concurrent register calls have returned, and they named the same model.
BothRegistered(name) ==
    \A t \in Threads : threads[t].pc = "done" /\ threads[t].model_name = name

\* C14: once two concurrent register calls for one model name have both
\* returned, the name's configuration and its handler are those of one and the
\* same call, however the two calls were interleaved.
C14_ConfigAndHandlerFromSameCall ==
    \A name \in Names :
        BothRegistered(name) =>
            \E t \in Threads :
                /\ get_service(name) =
                      Handler(threads[t].reg, threads[t].func, threads[t].flags)
                /\ get_service_config(name) = threads[t].flags

\* C5 witness: one name was registered twice, with different functions and flags.
C5_Witness ==
    /\ regs = 2
    /\ \E name \in Names :
         /\ DOMAIN services = {name}
         /\ lastReg[name].reg = 2
         /\ services[name].func = [params |-> <<"content">>]
         /\ services[name].flags = Flags(TRUE, TRUE, TRUE)

====
